---- MODULE Spec2Model ----
(***************************************************************************)
(* expect-test-bytes: snapshot assertions on byte data (src/src/lib.rs).   *)
(*                                                                         *)
(* Four specifications over one set of variables:                          *)
(*   SpecLocate  first_diff_index applied to pairs of byte sequences       *)
(*   SpecRender  ByteWindowDisplay::fmt applied to a sequence and an index *)
(*   Spec        ExpectFile::assert_eq_nopanic_imp, one assertion thread,  *)
(*               stepped at each file, environment and sink access         *)
(*   SpecHelp    the same engine run by NThreads threads at once           *)
(***************************************************************************)
EXTENDS Integers, Sequences, FiniteSets, TLC

VARIABLES
    phase,          \* "locate", "render" (input pending), "returned", or "engine"
    a, b, diff,     \* first_diff_index: the two slices and the returned Option
    data, diff_idx, is_expected, rendered,   \* ByteWindowDisplay and its output
    fs,             \* per path: the golden file, None (not found) or Some(bytes)
    env,            \* the UPDATE_EXPECT variable: None or Some(value)
    HELP_PRINTED,   \* the process-wide AtomicBool
    cfg_test,       \* cfg!(test), fixed at build time
    corpus,         \* the byte strings the callers pass as `actual`
    pc,             \* per thread: position inside assert_eq_nopanic_imp
    actual,         \* per thread: the argument of the running call
    expected,       \* per thread: the local `expected`
    var_os,         \* per thread: what var_os(..) returned to this call
    print_help,     \* per thread: the local `print_help`
    out,            \* per thread: what this call wrote to its writer
    outcome,        \* per thread: how the call ended
    ncalls,         \* assertions started in this process
    updated,        \* per path: Some(bytes) once an update of this run saved them
    nFail, nHelp    \* failing calls past line 153, and those that saw print_help

vars == <<phase, a, b, diff, data, diff_idx, is_expected, rendered, fs, env,
          HELP_PRINTED, cfg_test, corpus, pc, actual, expected, var_os,
          print_help, out, outcome, ncalls, updated, nFail, nHelp>>

locateVars == <<a, b, diff>>
renderVars == <<data, diff_idx, is_expected, rendered>>
engineVars == <<fs, env, HELP_PRINTED, cfg_test, corpus, pc, actual, expected,
                var_os, print_help, out, outcome, ncalls, updated, nFail, nHelp>>

(***************************************************************************)
(* Bounds                                                                  *)
(***************************************************************************)
MaxLen == 3
MaxDataLen == 11
NThreads == 2
MaxCalls == 3

(***************************************************************************)
(* Option<T>                                                               *)
(***************************************************************************)
None == <<>>
Some(x) == <<x>>
IsSome(o) == o /= None
Unwrap(o) == o[1]

Min(x, y) == IF x <= y THEN x ELSE y

(***************************************************************************)
(* first_diff_index (lib.rs 46-51)                                         *)
(***************************************************************************)
RECURSIVE ZipPosition(_, _, _)
\* a.iter().zip(b.iter()).position(|(x, y)| x != y), scanning from 0-based i
ZipPosition(x, y, i) ==
    IF i >= Min(Len(x), Len(y)) THEN None
    ELSE IF x[i + 1] /= y[i + 1] THEN Some(i)
    ELSE ZipPosition(x, y, i + 1)

\* the closure of or_else: (a.len() != b.len()).then(|| a.len().min(b.len()))
LenMismatch(x, y) ==
    IF Len(x) /= Len(y) THEN Some(Min(Len(x), Len(y))) ELSE None

\* faulty variant: the or_else fallback is lost
first_diff_index_no_fallback(x, y) == ZipPosition(x, y, 0)

first_diff_index(x, y) ==
    IF IsSome(ZipPosition(x, y, 0)) THEN ZipPosition(x, y, 0) ELSE LenMismatch(x, y)

(***************************************************************************)
(* ByteWindowDisplay and CharacterPanel (lib.rs 53-106)                    *)
(***************************************************************************)
BYTE_WINDOW_HALF_SIZE == 4

\* faulty variant: the window starts one byte late
WindowStart_late(d) ==
    IF d >= BYTE_WINDOW_HALF_SIZE - 1 THEN d - (BYTE_WINDOW_HALF_SIZE - 1) ELSE 0

\* self.diff_idx.saturating_sub(BYTE_WINDOW_HALF_SIZE)
WindowStart(d) == IF d >= BYTE_WINDOW_HALF_SIZE THEN d - BYTE_WINDOW_HALF_SIZE ELSE 0

\* self.data.len().min(self.diff_idx + BYTE_WINDOW_HALF_SIZE)
WindowEnd(bytes, d) == Min(Len(bytes), d + BYTE_WINDOW_HALF_SIZE)

\* bytes[start..=end]: None when the index panics (end + 1 > len, or start > end + 1)
SliceInclusive(bytes, start, end) ==
    IF end + 1 > Len(bytes) \/ start > end + 1 THEN None
    ELSE Some(SubSeq(bytes, start + 1, end + 1))

HexChars == <<"0", "1", "2", "3", "4", "5", "6", "7",
              "8", "9", "a", "b", "c", "d", "e", "f">>

\* {byte:02x}
Hex02(byte) == <<HexChars[(byte \div 16) + 1], HexChars[(byte % 16) + 1]>>

is_ascii_graphic(byte) == byte >= 33 /\ byte <= 126
is_ascii_whitespace(byte) == byte \in {32, 9, 10, 12, 13}
is_ascii(byte) == byte <= 127

\* the match of CharacterPanel::fmt, arms in order
PanelChar(byte) ==
    IF byte = 0 THEN [glyph |-> "diamond", code |-> 0]
    ELSE IF is_ascii_graphic(byte) THEN [glyph |-> "char", code |-> byte]
    ELSE IF byte = 32 THEN [glyph |-> "space", code |-> 0]
    ELSE IF is_ascii_whitespace(byte) THEN [glyph |-> "underscore", code |-> 0]
    ELSE IF is_ascii(byte) THEN [glyph |-> "bullet", code |-> 0]
    ELSE [glyph |-> "cross", code |-> 0]

CharacterPanel(bytes) == [i \in 1..Len(bytes) |-> PanelChar(bytes[i])]

Panicked == [panic |-> TRUE, hex |-> <<>>, panel |-> <<>>]

\* the loop of ByteWindowDisplay::fmt over the window, then the panel
FmtWindow(win, translated_diff_idx, expectedSide) ==
    [panic |-> FALSE,
     hex |-> [i \in 1..Len(win) |->
                [text |-> Hex02(win[i]),
                 color |-> IF i - 1 = translated_diff_idx
                           THEN (IF expectedSide THEN "32" ELSE "31")
                           ELSE ""]],
     panel |-> CharacterPanel(win)]

\* ByteWindowDisplay { data, diff_idx, is_expected }.fmt
Render(bytes, d, expectedSide) ==
    LET start == WindowStart(d)
        end == WindowEnd(bytes, d)
        win == SliceInclusive(bytes, start, end)
    IN  IF IsSome(win) THEN FmtWindow(Unwrap(win), d - start, expectedSide)
        ELSE Panicked

(***************************************************************************)
(* Inputs                                                                  *)
(***************************************************************************)
SeqsUpTo(S, n) == UNION {[1..k -> S] : k \in 0..n}

\* byte values given to first_diff_index
LocBytes == {0, 1, 255}

\* one byte of every CharacterPanel class, repeated to build render inputs
Pattern == <<0, 65, 32, 10, 1, 128, 126, 9, 127, 255>>
PatternSeq(n, r) == [i \in 1..n |-> Pattern[((i - 1 + r) % Len(Pattern)) + 1]]
RenderInputs == {PatternSeq(n, r) : n \in 0..MaxDataLen, r \in 0..(Len(Pattern) - 1)}

\* b"example\n" and b"exa- not this\n" of tests.rs, and three neighbours
Example == <<101, 120, 97, 109, 112, 108, 101, 10>>
ExaNotThis == <<101, 120, 97, 45, 32, 110, 111, 116, 32, 116, 104, 105, 115, 10>>
ExampleBang == <<101, 120, 97, 109, 112, 108, 101, 33>>
Exa == <<101, 120, 97>>
Empty == <<>>
EngineVals == {Empty, Exa, Example, ExampleBang, ExaNotThis}

Threads == 1..NThreads

(***************************************************************************)
(* SpecLocate and SpecRender: the pure functions applied to their inputs   *)
(***************************************************************************)
LocateIdle == a = <<>> /\ b = <<>> /\ diff = None
RenderIdle == data = <<>> /\ diff_idx = 0 /\ is_expected = FALSE /\ rendered = Panicked
EngineIdle ==
    /\ fs = [t \in Threads |-> None]
    /\ env = None
    /\ HELP_PRINTED = FALSE
    /\ cfg_test = FALSE
    /\ corpus = {}
    /\ pc = [t \in Threads |-> "off"]
    /\ actual = [t \in Threads |-> <<>>]
    /\ expected = [t \in Threads |-> None]
    /\ var_os = [t \in Threads |-> None]
    /\ print_help = [t \in Threads |-> FALSE]
    /\ out = [t \in Threads |-> <<>>]
    /\ outcome = [t \in Threads |-> "NotCalled"]
    /\ ncalls = 0
    /\ updated = [t \in Threads |-> None]
    /\ nFail = 0
    /\ nHelp = 0

InitLocate ==
    /\ phase = "locate"
    /\ a \in SeqsUpTo(LocBytes, MaxLen)
    /\ b \in SeqsUpTo(LocBytes, MaxLen)
    /\ diff = None
    /\ RenderIdle
    /\ EngineIdle

Locate ==
    /\ phase = "locate"
    /\ diff' = first_diff_index(a, b)
    /\ phase' = "returned"
    /\ UNCHANGED <<a, b, renderVars, engineVars>>

SpecLocate == InitLocate /\ [][Locate]_vars

\* the engine passes an index that is at most the length of either side
InitRender ==
    /\ phase = "render"
    /\ data \in RenderInputs
    /\ diff_idx \in 0..Len(data)
    /\ is_expected \in BOOLEAN
    /\ rendered = Panicked
    /\ LocateIdle
    /\ EngineIdle

Fmt ==
    /\ phase = "render"
    /\ rendered' = Render(data, diff_idx, is_expected)
    /\ phase' = "returned"
    /\ UNCHANGED <<data, diff_idx, is_expected, locateVars, engineVars>>

SpecRender == InitRender /\ [][Fmt]_vars

(***************************************************************************)
(* ExpectFile::assert_eq_nopanic_imp (lib.rs 134-204)                      *)
(*                                                                         *)
(* Thread t asserts on its own path t.  A call is stepped at each access   *)
(* to the file system, the environment, HELP_PRINTED and the writer.  Each *)
(* io::Result may be an error, which the unwrap() turns into a panic       *)
(* (outcome "IoPanic"); the slice index of ByteWindowDisplay::fmt may      *)
(* panic as well (outcome "IndexPanic").                                   *)
(***************************************************************************)

\* faulty variant: an empty golden file is taken for a missing one
RecordEquals_nonempty(exp, act) == exp = Some(act) /\ act /= <<>>

\* expected.as_deref() == Some(actual)
RecordEquals(exp, act) == exp = Some(act)

\* faulty variant: is_none() for is_some()
UpdateRequested_inverted(v) == ~IsSome(v)

\* faulty variant: an empty value counts as unset
UpdateRequested_nonempty(v) == IsSome(v) /\ v /= Some("")

\* std::env::var_os(UPDATE_EXPECT_VAR_NAME).is_some()
UpdateRequested(v) == IsSome(v)

\* faulty variant: load instead of swap
HelpSwap_load(flag) == [old |-> flag, new |-> flag]

\* HELP_PRINTED.swap(true, Ordering::SeqCst): the old value, and the value stored
HelpSwap(flag) == [old |-> flag, new |-> TRUE]

\* faulty variant: the placeholder does not depend on the record
ExpectPlaceholder_binary(exp) == "<binary>"

\* if expected.is_some() { "<binary>" } else { "Not found" }
ExpectPlaceholder(exp) == IF IsSome(exp) THEN "<binary>" ELSE "Not found"

\* the line of lib.rs 140-145
UpdatingLine(t) == [k |-> "updating", path |-> t]

\* the block of lib.rs 156-175
ReportBlock(t, help, exp) ==
    [k |-> "report", path |-> t, help |-> help, expect |-> ExpectPlaceholder(exp)]

\* first_diff_index(&expected, actual).unwrap_or(0)
DiffIdx(exp, act) ==
    IF IsSome(first_diff_index(exp, act)) THEN Unwrap(first_diff_index(exp, act)) ELSE 0

\* the block of lib.rs 180-200 as far as it reaches the writer: the pieces are
\* written in order, so a panic in the Expect window leaves the Actual window
\* and the marker unwritten (complete = FALSE)
DiffBlock(exp, act) ==
    LET d == DiffIdx(exp, act)
        e == Render(exp, d, TRUE)
        r == Render(act, d, FALSE)
    IN  [k |-> "diff", at |-> d, expect |-> e,
         actual |-> IF e.panic THEN Panicked ELSE r,
         offset |-> Min(d, BYTE_WINDOW_HALF_SIZE),
         complete |-> ~e.panic /\ ~r.panic]

Returns(t, how) ==
    /\ pc' = [pc EXCEPT ![t] = "done"]
    /\ outcome' = [outcome EXCEPT ![t] = how]

\* entry, fs::read (135) and the comparison (136-138)
Load(t) ==
    /\ phase = "engine"
    /\ pc[t] \in {"idle", "done"}
    /\ ncalls < MaxCalls
    /\ \E x \in corpus, ok \in BOOLEAN :
        /\ actual' = [actual EXCEPT ![t] = x]
        /\ expected' = [expected EXCEPT ![t] = IF ok THEN fs[t] ELSE None]
        /\ IF ~ok THEN Returns(t, "IoPanic")
           ELSE IF RecordEquals(fs[t], x) THEN Returns(t, "Equal")
           ELSE /\ pc' = [pc EXCEPT ![t] = "env"]
                /\ outcome' = [outcome EXCEPT ![t] = "Loaded"]
    /\ ncalls' = ncalls + 1
    /\ var_os' = [var_os EXCEPT ![t] = None]
    /\ print_help' = [print_help EXCEPT ![t] = FALSE]
    /\ out' = [out EXCEPT ![t] = <<>>]
    /\ UNCHANGED <<phase, locateVars, renderVars, fs, env, HELP_PRINTED, cfg_test,
                   corpus, updated, nFail, nHelp>>

\* the test of line 139
CheckEnv(t) ==
    /\ pc[t] = "env"
    /\ var_os' = [var_os EXCEPT ![t] = env]
    /\ pc' = [pc EXCEPT ![t] = IF UpdateRequested(env) THEN "confirm" ELSE "swap"]
    /\ UNCHANGED <<phase, locateVars, renderVars, fs, env, HELP_PRINTED, cfg_test,
                   corpus, actual, expected, print_help, out, outcome, ncalls,
                   updated, nFail, nHelp>>

\* faulty variant: the file is saved without the line being written
Confirm_silent(t) ==
    /\ pc[t] = "confirm"
    /\ pc' = [pc EXCEPT ![t] = "save"]
    /\ UNCHANGED <<phase, locateVars, renderVars, fs, env, HELP_PRINTED, cfg_test,
                   corpus, actual, expected, var_os, print_help, out, outcome,
                   ncalls, updated, nFail, nHelp>>

\* writeln!(writer, "updating: ..").unwrap() (140-145)
Confirm(t) ==
    /\ pc[t] = "confirm"
    /\ \E ok \in BOOLEAN :
        IF ok
        THEN /\ out' = [out EXCEPT ![t] = Append(@, UpdatingLine(t))]
             /\ pc' = [pc EXCEPT ![t] = "save"]
             /\ UNCHANGED outcome
        ELSE /\ Returns(t, "IoPanic")
             /\ UNCHANGED out
    /\ UNCHANGED <<phase, locateVars, renderVars, fs, env, HELP_PRINTED, cfg_test,
                   corpus, actual, expected, var_os, print_help, ncalls, updated,
                   nFail, nHelp>>

\* fs::write(&self.path, actual).unwrap(); return Ok(()) (146-147)
Save(t) ==
    /\ pc[t] = "save"
    /\ \E ok \in BOOLEAN :
        IF ok
        THEN /\ fs' = [fs EXCEPT ![t] = Some(actual[t])]
             /\ updated' = [updated EXCEPT ![t] = Some(actual[t])]
             /\ Returns(t, "UpdatePerformed")
        ELSE /\ Returns(t, "IoPanic")
             /\ UNCHANGED <<fs, updated>>
    /\ UNCHANGED <<phase, locateVars, renderVars, env, HELP_PRINTED, cfg_test,
                   corpus, actual, expected, var_os, print_help, out, ncalls,
                   nFail, nHelp>>

\* let print_help = if cfg!(test) { true } else { !HELP_PRINTED.swap(true, ..) } (149-153)
SwapHelp(t) ==
    /\ pc[t] = "swap"
    /\ LET shown == IF cfg_test THEN TRUE ELSE ~HelpSwap(HELP_PRINTED).old
       IN  /\ print_help' = [print_help EXCEPT ![t] = shown]
           /\ nHelp' = IF shown THEN nHelp + 1 ELSE nHelp
    /\ HELP_PRINTED' = IF cfg_test THEN HELP_PRINTED ELSE HelpSwap(HELP_PRINTED).new
    /\ nFail' = nFail + 1
    /\ pc' = [pc EXCEPT ![t] = "report"]
    /\ UNCHANGED <<phase, locateVars, renderVars, fs, env, cfg_test, corpus, actual,
                   expected, var_os, out, outcome, ncalls, updated>>

\* the first writeln! (156-175); with no record the call returns Err(()) (177, 203)
Report(t) ==
    /\ pc[t] = "report"
    /\ \E ok \in BOOLEAN :
        IF ~ok
        THEN /\ Returns(t, "IoPanic")
             /\ UNCHANGED out
        ELSE /\ out' = [out EXCEPT ![t] =
                          Append(@, ReportBlock(t, print_help[t], expected[t]))]
             /\ IF IsSome(expected[t])
                THEN /\ pc' = [pc EXCEPT ![t] = "diff"]
                     /\ UNCHANGED outcome
                ELSE Returns(t, "FailureReported")
    /\ UNCHANGED <<phase, locateVars, renderVars, fs, env, HELP_PRINTED, cfg_test,
                   corpus, actual, expected, var_os, print_help, ncalls, updated,
                   nFail, nHelp>>

\* the second writeln! (177-201) and Err(()) (203)
Diff(t) ==
    /\ pc[t] = "diff"
    /\ \E ok \in BOOLEAN :
        IF ~ok
        THEN /\ Returns(t, "IoPanic")
             /\ UNCHANGED out
        ELSE LET block == DiffBlock(Unwrap(expected[t]), actual[t])
             IN  /\ out' = [out EXCEPT ![t] = Append(@, block)]
                 /\ Returns(t, IF block.complete THEN "FailureReported"
                                                 ELSE "IndexPanic")
    /\ UNCHANGED <<phase, locateVars, renderVars, fs, env, HELP_PRINTED, cfg_test,
                   corpus, actual, expected, var_os, print_help, ncalls, updated,
                   nFail, nHelp>>

\* the values the variable is given: "" (tests.rs 46) and "1" (the HELP text)
EnvValues == {"", "1"}

\* std::env::set_var(UPDATE_EXPECT_VAR_NAME, v) (tests.rs 46)
SetVar ==
    /\ phase = "engine"
    /\ \E v \in EnvValues : env /= Some(v) /\ env' = Some(v)
    /\ UNCHANGED <<phase, locateVars, renderVars, fs, HELP_PRINTED, cfg_test, corpus,
                   pc, actual, expected, var_os, print_help, out, outcome, ncalls,
                   updated, nFail, nHelp>>

\* std::env::remove_var(UPDATE_EXPECT_VAR_NAME) (tests.rs 56)
RemoveVar ==
    /\ phase = "engine"
    /\ env /= None
    /\ env' = None
    /\ UNCHANGED <<phase, locateVars, renderVars, fs, HELP_PRINTED, cfg_test, corpus,
                   pc, actual, expected, var_os, print_help, out, outcome, ncalls,
                   updated, nFail, nHelp>>

Step(t) ==
    \/ Load(t)
    \/ CheckEnv(t)
    \/ Confirm(t)
    \/ Save(t)
    \/ SwapHelp(t)
    \/ Report(t)
    \/ Diff(t)

Next ==
    \/ \E t \in Threads : Step(t)
    \/ SetVar
    \/ RemoveVar

\* a process with the threads `running`, golden files drawn from `files`
\* (or missing) and callers passing the byte strings `inputs`
InitEngine(running, files, inputs) ==
    /\ phase = "engine"
    /\ LocateIdle
    /\ RenderIdle
    /\ fs \in [Threads -> {None} \cup {Some(v) : v \in files}]
    /\ \A t \in Threads \ running : fs[t] = None
    /\ env \in {None} \cup {Some(v) : v \in EnvValues}
    /\ HELP_PRINTED = FALSE
    /\ cfg_test \in BOOLEAN
    /\ corpus = inputs
    /\ pc = [t \in Threads |-> IF t \in running THEN "idle" ELSE "off"]
    /\ actual = [t \in Threads |-> <<>>]
    /\ expected = [t \in Threads |-> None]
    /\ var_os = [t \in Threads |-> None]
    /\ print_help = [t \in Threads |-> FALSE]
    /\ out = [t \in Threads |-> <<>>]
    /\ outcome = [t \in Threads |-> "NotCalled"]
    /\ ncalls = 0
    /\ updated = [t \in Threads |-> None]
    /\ nFail = 0
    /\ nHelp = 0

Init == InitEngine({1}, EngineVals, EngineVals)

Spec == Init /\ [][Next]_vars

\* every thread runs; the two byte strings of tests.rs, no golden file yet
InitHelp == InitEngine(Threads, {}, {Example, ExaNotThis})

SpecHelp == InitHelp /\ [][Next]_vars

(***************************************************************************)
(* Properties                                                              *)
(***************************************************************************)
Max(x, y) == IF x >= y THEN x ELSE y
Finished(t) == pc[t] = "done"
HasUpdating(w) == \E i \in 1..Len(w) : w[i].k = "updating"
HasDiff(w) == \E i \in 1..Len(w) : w[i].k = "diff"

\* C1: a call that reads the update variable as set (to any value, "" included),
\* which it does only when the record is missing or differs, returns success
\* and leaves the file holding exactly the actual bytes, unless an I/O error
\* unwinds it; every later call on that path with the same bytes, not reading
\* the variable, returns Equal with nothing written.
C1_UpdateRoundTrip ==
    \A t \in Threads :
        (Finished(t) /\ outcome[t] /= "IoPanic") =>
            /\ IsSome(var_os[t]) =>
                  /\ outcome[t] = "UpdatePerformed"
                  /\ expected[t] /= Some(actual[t])
                  /\ fs[t] = Some(actual[t])
            /\ (updated[t] = Some(actual[t]) /\ ~IsSome(var_os[t])) =>
                  /\ outcome[t] = "Equal"
                  /\ fs[t] = Some(actual[t])
                  /\ out[t] = <<>>

\* after an update saved these bytes, a third assertion of the process, made
\* with the same bytes while the variable is unset, has returned Equal
C1_Witness_RoundTrip ==
    \E t \in Threads :
        /\ Finished(t)
        /\ ncalls >= 3
        /\ env = None
        /\ var_os[t] = None
        /\ updated[t] = Some(actual[t])
        /\ outcome[t] = "Equal"
        /\ fs[t] = Some(actual[t])

\* C2 (as claimed): with the variable unset and a record that is present but
\* differs, the call returns failure after a report whose Diff section carries
\* the index of first_diff_index; only an I/O error may unwind it.
C2_MismatchReported ==
    \A t \in Threads :
        (/\ Finished(t)
         /\ outcome[t] /= "IoPanic"
         /\ var_os[t] = None
         /\ IsSome(expected[t])
         /\ expected[t] /= Some(actual[t])) =>
            /\ outcome[t] = "FailureReported"
            /\ Len(out[t]) = 2
            /\ out[t][2].k = "diff"
            /\ out[t][2].complete
            /\ Some(out[t][2].at) = first_diff_index(Unwrap(expected[t]), actual[t])

\* C3: a step changes the golden file of a path only inside a call that read
\* the variable as set and loaded a record that is missing or differs, and
\* then the file becomes the actual bytes; no other step touches any file.
C3_WriteOnlyOnUpdate ==
    [][\A t \in Threads :
         fs'[t] /= fs[t] =>
            /\ IsSome(var_os[t])
            /\ expected[t] /= Some(actual[t])
            /\ fs'[t] = Some(actual[t])]_vars

\* a failing assertion on a missing file has returned and the file is still missing
C3_Witness_NotCreated ==
    \E t \in Threads :
        /\ Finished(t)
        /\ outcome[t] = "FailureReported"
        /\ var_os[t] = None
        /\ expected[t] = None
        /\ fs[t] = None

\* C4: once a call has loaded a record equal to the actual bytes it has
\* returned Equal, has written nothing to its writer and has left the file as
\* it was, whatever the update variable holds.
C4_EqualSilent ==
    \A t \in Threads :
        (pc[t] \notin {"off", "idle"} /\ expected[t] = Some(actual[t])) =>
            /\ Finished(t)
            /\ outcome[t] = "Equal"
            /\ out[t] = <<>>
            /\ fs[t] = expected[t]

\* an Equal return while the update variable is set
C4_Witness_EqualWhileSet ==
    \E t \in Threads :
        /\ Finished(t)
        /\ outcome[t] = "Equal"
        /\ expected[t] = Some(actual[t])
        /\ IsSome(env)

\* C5: with the file missing and the variable read as unset, a call that no
\* I/O error unwinds returns failure, its report is the one block whose Expect
\* section says "Not found", there is no Diff section, and the file stays missing.
C5_MissingReported ==
    \A t \in Threads :
        (/\ Finished(t)
         /\ outcome[t] /= "IoPanic"
         /\ expected[t] = None
         /\ var_os[t] = None) =>
            /\ outcome[t] = "FailureReported"
            /\ Len(out[t]) = 1
            /\ out[t][1].k = "report"
            /\ out[t][1].expect = "Not found"
            /\ ~HasDiff(out[t])
            /\ fs[t] = None

\* the report of a missing file, for a non-empty actual value
C5_Witness_NotFound ==
    \E t \in Threads :
        /\ Finished(t)
        /\ expected[t] = None
        /\ actual[t] = Example
        /\ outcome[t] = "FailureReported"
        /\ out[t][1].expect = "Not found"

\* i is a divergence point of a and b: equal before i, and at i a byte differs
\* or one of the two has ended
IsDivergence(i) ==
    /\ i <= Len(a)
    /\ i <= Len(b)
    /\ SubSeq(a, 1, i) = SubSeq(b, 1, i)
    /\ (i = Len(a) \/ i = Len(b) \/ a[i + 1] /= b[i + 1])

\* C6: first_diff_index(a, b) is None exactly when a = b; otherwise it is
\* Some(i) for the least divergence point i.
C6_FirstDiff ==
    phase = "returned" =>
        /\ (diff = None) <=> (a = b)
        /\ IsSome(diff) =>
              /\ IsDivergence(Unwrap(diff))
              /\ \A j \in 0..(Unwrap(diff) - 1) : ~IsDivergence(j)

\* a non-empty strict prefix yields the length of the shorter slice
C6_Witness_Prefix ==
    /\ phase = "returned"
    /\ Len(a) > 0
    /\ Len(a) < Len(b)
    /\ SubSeq(b, 1, Len(a)) = a
    /\ diff = Some(Len(a))

HelpOnce ==
    /\ nHelp <= 1
    /\ nFail >= 1 => (nHelp = 1 /\ HELP_PRINTED)
    /\ nFail = 0 => ~HELP_PRINTED

\* C7: outside test mode, of all failing assertions that have reached the swap
\* exactly one has seen print_help = true, however the threads interleave, and
\* HELP_PRINTED never goes back to false.
C7_HelpOnce ==
    [][/\ ~cfg_test => HelpOnce'
       /\ HELP_PRINTED => HELP_PRINTED']_vars

\* two threads are both past the swap, one with the hint and one without
C7_Witness_TwoFailing ==
    /\ ~cfg_test
    /\ nFail >= 2
    /\ nHelp = 1
    /\ \E t, u \in Threads :
        /\ t /= u
        /\ pc[t] \in {"report", "diff"} /\ print_help[t]
        /\ pc[u] \in {"report", "diff"} /\ ~print_help[u]

HexVal(ch) == CHOOSE n \in 0..15 : HexChars[n + 1] = ch
\* the bytes a render shows, read back from its hex pairs
RenderedBytes(r) ==
    [i \in 1..Len(r.hex) |-> 16 * HexVal(r.hex[i].text[1]) + HexVal(r.hex[i].text[2])]
ShowsEveryByte == ~rendered.panic /\ RenderedBytes(rendered) = data

\* C8 (as claimed): the render of a sequence of 9 bytes or fewer holds every
\* byte of it, for every divergence index, and the render of a longer one holds
\* at most 9 bytes.  A call that panics produces no render and is not judged.
C8_WholeUpToNine ==
    (phase = "returned" /\ ~rendered.panic) =>
        /\ Len(data) <= 2 * BYTE_WINDOW_HALF_SIZE + 1 => RenderedBytes(rendered) = data
        /\ Len(data) > 2 * BYTE_WINDOW_HALF_SIZE + 1 =>
              Len(rendered.hex) <= 2 * BYTE_WINDOW_HALF_SIZE + 1

\* C8 (amended): no render holds more than 9 bytes; a sequence of 9 bytes or
\* fewer is rendered whole only if diff_idx <= 4 and diff_idx + 4 >= len - 1,
\* and it is whenever diff_idx + 4 = len - 1.
C8_WholeOnlyNearBothEnds ==
    phase = "returned" =>
        /\ Len(rendered.hex) <= 2 * BYTE_WINDOW_HALF_SIZE + 1
        /\ Len(rendered.panel) = Len(rendered.hex)
        /\ Len(data) <= 2 * BYTE_WINDOW_HALF_SIZE + 1 =>
              /\ ShowsEveryByte =>
                    /\ diff_idx <= BYTE_WINDOW_HALF_SIZE
                    /\ diff_idx + BYTE_WINDOW_HALF_SIZE >= Len(data) - 1
              /\ diff_idx + BYTE_WINDOW_HALF_SIZE = Len(data) - 1 => ShowsEveryByte

\* nine bytes rendered whole around index 4
C8_Witness_NineWhole ==
    /\ phase = "returned"
    /\ Len(data) = 2 * BYTE_WINDOW_HALF_SIZE + 1
    /\ diff_idx = BYTE_WINDOW_HALF_SIZE
    /\ ShowsEveryByte

\* C9 (as claimed): for 0 <= diff_idx <= len the render is exactly the bytes at
\* max(0, diff_idx - 4) .. min(len - 1, diff_idx + 4), no index >= len is read
\* (no panic), and with diff_idx = len no byte is highlighted.
C9_WindowExact ==
    phase = "returned" =>
        LET lo == Max(0, diff_idx - BYTE_WINDOW_HALF_SIZE)
            hi == Min(Len(data) - 1, diff_idx + BYTE_WINDOW_HALF_SIZE)
        IN  /\ ~rendered.panic
            /\ RenderedBytes(rendered) = SubSeq(data, lo + 1, hi + 1)
            /\ diff_idx = Len(data) =>
                  \A i \in 1..Len(rendered.hex) : rendered.hex[i].color = ""

\* C10 (as claimed): whenever the "updating" line is in the writer, the file
\* already holds the actual bytes.
C10_SavedBeforeConfirm ==
    \A t \in Threads : HasUpdating(out[t]) => fs[t] = Some(actual[t])

\* C10 (amended): the "updating" line is written first and the file saved
\* after it: every step that changes the file finds the line already in the
\* writer of that call, and stores the actual bytes.
C10_ConfirmThenSave ==
    [][\A t \in Threads :
         fs'[t] /= fs[t] => (HasUpdating(out[t]) /\ fs'[t] = Some(actual[t]))]_vars

\* the line is written and the file not yet saved
C10_Witness_Between ==
    \E t \in Threads :
        /\ pc[t] = "save"
        /\ HasUpdating(out[t])
        /\ fs[t] /= Some(actual[t])

====
